---- MODULE Spec2Model ----
(***************************************************************************)
(* RustyMazes: the maze-graph engine.  A grid of optional cells is built   *)
(* from a mask (src/grid.rs, src/mask.rs, src/cell.rs), and one of the     *)
(* generation algorithms of src/algorithms/mod.rs links cells in place.    *)
(* Every random draw of the program (rand::thread_rng) is a nondeterministic*)
(* choice; every call of Grid::link is one step, so the states between two *)
(* link calls are states of the model.                                     *)
(***************************************************************************)
EXTENDS Integers, Sequences, FiniteSets, TLC

\* Largest grid width and height the model builds, the largest number of
\* lattice positions of a grid, and the largest number of lattice positions
\* of a grid that is built from every mask (a larger grid is built from the
\* fully-open mask and from the masks of Scenarios).
MaxW == 3
MaxH == 3
MaxCells == 9
MaxMaskCells == 6
MaxDistCells == 4
MaxLinkCells == 4
MaxLinkCalls == 2
MaxPathCells == 3
MaxTxtW == 2
MaxTxtH == 2

VARIABLES
    mask,        \* Mask.mask: the occupancy array the grid was built from
    width,       \* Grid::width()
    height,      \* Grid::height()
    cells,       \* Grid::cells(): index -> Option<Cell>, index = y*width + x
    alg,         \* the Algorithm value `on` is called on
    pc,          \* position in the running algorithm
    index,       \* random_cell: the index drawn last
    i,           \* position of the running `for` loop
    actions,     \* binary_tree / sidewinder: Vec<(Point, Point)>
    run,         \* sidewinder: the current run (Vec<&Cell>)
    cell,        \* aldous_broder / wilsons: `cell` (a copy of a grid cell)
    unvisited,   \* aldous_broder: the counter `unvisited`
    w_unvisited, \* wilsons: the Vec<Cell> `unvisited`
    path,        \* wilsons: `path`
    current,     \* hunt_and_kill: `current` (Option<Cell>)
    stack,       \* recursive_backtracker: `stack` (Vec<Point>)
    walked,      \* history: the points the aldous_broder walk has stood on
    link_call,   \* history: the arguments of the Grid::link call of the last
                 \* step (Option), None when that step made no call
    dist,        \* a Distances value: [root, cells], cells a map Point -> usize
    ret,         \* the value the last Distances query returned (Option)
    txt          \* the text Mask::from_txt reads: [width, height, lines]

vars == <<mask, width, height, cells, alg, pc, index, i, actions, run, cell,
          unvisited, w_unvisited, path, current, stack, walked,
          link_call, dist, ret, txt>>

(***************************************************************************)
(* Option<T>: None is the empty sequence, Some(v) the one-element sequence. *)
(***************************************************************************)
None == <<>>
Some(v) == <<v>>
unwrap(o) == o[1]

(***************************************************************************)
(* point.rs                                                                *)
(***************************************************************************)
Point_new(x, y) == [x |-> x, y |-> y]
Point_add(p, q) == Point_new(p.x + q.x, p.y + q.y)
Point_sub(p, q) == Point_new(p.x - q.x, p.y - q.y)
Point_north(p) == Point_new(p.x, p.y - 1)
Point_south(p) == Point_new(p.x, p.y + 1)
Point_east(p) == Point_new(p.x + 1, p.y)
Point_west(p) == Point_new(p.x - 1, p.y)

(***************************************************************************)
(* cell.rs                                                                 *)
(***************************************************************************)
NeighborPoint(p, l) == [point |-> p, linked |-> l]

Cell_new(point) ==
    [point |-> point,
     north |-> NeighborPoint(Point_add(point, Point_new(0, -1)), FALSE),
     east  |-> NeighborPoint(Point_add(point, Point_new(1, 0)), FALSE),
     south |-> NeighborPoint(Point_add(point, Point_new(0, 1)), FALSE),
     west  |-> NeighborPoint(Point_add(point, Point_new(-1, 0)), FALSE)]

\* Cell::link reaches its panic!("Invalid point") arm.
Cell_link_panics(self, other_position) ==
    LET point == Point_sub(other_position, self.point)
    IN  ~ \/ (point.x = 0 /\ point.y = -1)
          \/ (point.x = 0 /\ point.y = 1)
          \/ (point.x = 1 /\ point.y = 0)
          \/ (point.x = -1 /\ point.y = 0)

\* Cell::link: the cell after the call (unchanged where it panics).
Cell_link(self, other_position) ==
    LET point == Point_sub(other_position, self.point)
    IN  CASE point.x = 0 /\ point.y = -1 -> [self EXCEPT !.north.linked = TRUE]
          [] point.x = 0 /\ point.y = 1  -> [self EXCEPT !.south.linked = TRUE]
          [] point.x = 1 /\ point.y = 0  -> [self EXCEPT !.east.linked = TRUE]
          [] point.x = -1 /\ point.y = 0 -> [self EXCEPT !.west.linked = TRUE]
          [] OTHER -> self

\* Cell::links: the targets of the linked slots, north, south, east, west.
Cell_links(self) ==
    (IF self.north.linked THEN <<self.north.point>> ELSE <<>>)
    \o (IF self.south.linked THEN <<self.south.point>> ELSE <<>>)
    \o (IF self.east.linked THEN <<self.east.point>> ELSE <<>>)
    \o (IF self.west.linked THEN <<self.west.point>> ELSE <<>>)

(***************************************************************************)
(* grid.rs: the provided methods of trait Grid, over a cell array cs and   *)
(* a width w.                                                              *)
(***************************************************************************)
Min(S) == CHOOSE m \in S : \A n \in S : m <= n

\* Grid::point_to_index
point_to_index(cs, w, point) ==
    IF point.x < 0 \/ point.y < 0
    THEN None
    ELSE LET idx == point.y * w + point.x
         IN  IF idx >= Cardinality(DOMAIN cs) THEN None ELSE Some(idx)

\* Grid::get with the coordinate test dropped: the first present cell.
get_first(cs, point) ==
    LET found == {j \in DOMAIN cs : cs[j] /= None}
    IN  IF found = {} THEN None ELSE cs[Min(found)]

\* Grid::get: the first present cell whose coordinate is `point`.
get(cs, point) ==
    LET found == {j \in DOMAIN cs : cs[j] /= None /\ unwrap(cs[j]).point = point}
    IN  IF found = {} THEN None ELSE cs[Min(found)]

\* Grid::link with the second endpoint left alone whatever `bidi` says.
Grid_link_one_sided(cs, w, a, b, bidi) ==
    LET index_a == point_to_index(cs, w, a)
        has_a == index_a /= None /\ cs[unwrap(index_a)] /= None
        panic_a == has_a /\ Cell_link_panics(unwrap(cs[unwrap(index_a)]), b)
    IN  IF has_a /\ ~panic_a
        THEN [cells |-> [cs EXCEPT ![unwrap(index_a)] = Some(Cell_link(unwrap(@), b))],
              panic |-> FALSE]
        ELSE [cells |-> cs, panic |-> panic_a]

\* Grid::link: the cell array after the call, and whether Cell::link panicked
\* (a panic in the first Cell::link leaves the array untouched, one in the
\* second leaves the first endpoint linked).
Grid_link(cs, w, a, b, bidi) ==
    LET index_a == point_to_index(cs, w, a)
        index_b == point_to_index(cs, w, b)
        has_a == index_a /= None /\ cs[unwrap(index_a)] /= None
        panic_a == has_a /\ Cell_link_panics(unwrap(cs[unwrap(index_a)]), b)
        cs1 == IF has_a /\ ~panic_a
               THEN [cs EXCEPT ![unwrap(index_a)] = Some(Cell_link(unwrap(@), b))]
               ELSE cs
        has_b == index_b /= None /\ cs1[unwrap(index_b)] /= None
        panic_b == has_b /\ Cell_link_panics(unwrap(cs1[unwrap(index_b)]), a)
        cs2 == IF has_b /\ ~panic_b
               THEN [cs1 EXCEPT ![unwrap(index_b)] = Some(Cell_link(unwrap(@), a))]
               ELSE cs1
    IN  IF panic_a THEN [cells |-> cs, panic |-> TRUE]
        ELSE IF ~bidi THEN [cells |-> cs1, panic |-> FALSE]
        ELSE [cells |-> cs2, panic |-> panic_b]

\* The arguments of a call link(a, b, bidi), as link_call records them.
LinkCall(a, b, bidi) == Some([a |-> a, b |-> b, bidi |-> bidi])

\* Option<&Cell> values that are Some, as a Vec of the cells.
push_some(vec, o) == IF o /= None THEN Append(vec, unwrap(o)) ELSE vec

\* Grid::neighbors with the pushes in the order north, east, south, west.
Grid_neighbors_clockwise(cs, point) ==
    LET n == get(cs, Point_north(point))
        s == get(cs, Point_south(point))
        e == get(cs, Point_east(point))
        w == get(cs, Point_west(point))
        all == push_some(push_some(push_some(push_some(<<>>, n), e), s), w)
    IN  [k \in 1..Len(all) |-> all[k].point]

\* Grid::neighbors: the coordinates of the present cells north, south, east, west.
Grid_neighbors(cs, point) ==
    LET n == get(cs, Point_north(point))
        s == get(cs, Point_south(point))
        e == get(cs, Point_east(point))
        w == get(cs, Point_west(point))
        all == push_some(push_some(push_some(push_some(<<>>, n), s), e), w)
    IN  [k \in 1..Len(all) |-> all[k].point]

\* Cell::neighbors: copies of the present cells at the four slot targets.
Cell_neighbors(self, cs) ==
    push_some(push_some(push_some(push_some(<<>>,
        get(cs, self.north.point)),
        get(cs, self.south.point)),
        get(cs, self.east.point)),
        get(cs, self.west.point))

\* RectangularGrid::new / PolarGrid::new: every coordinate holds a fresh cell.
Grid_new(w, h) ==
    [j \in 0..(w * h - 1) |-> Some(Cell_new(Point_new(j % w, j \div w)))]

\* Maskable::mask with the test of the mask entry inverted.
Grid_mask_inverted(cs, m) ==
    [j \in DOMAIN cs |-> IF m[j] THEN None ELSE cs[j]]

\* Maskable::mask (both grids): cells at a false mask entry become None.
Grid_mask(cs, m) ==
    [j \in DOMAIN cs |-> IF ~m[j] THEN None ELSE cs[j]]

\* Maskable::from_mask: the cell array of the grid built from a mask.
from_mask(m, w, h) == Grid_mask(Grid_new(w, h), m)

\* Vec helpers: x is in vec / the 1-based position of the first x in vec.
contains(vec, x) == \E k \in 1..Len(vec) : vec[k] = x
position(vec, x) == Min({k \in 1..Len(vec) : vec[k] = x})
retain_ne(vec, x) == SelectSeq(vec, LAMBDA c : c /= x)

\* The present cells of the array in index order (filter is_some, unwrap).
RECURSIVE some_cells_from(_, _)
some_cells_from(cs, j) ==
    IF j >= Cardinality(DOMAIN cs) THEN <<>>
    ELSE (IF cs[j] /= None THEN <<unwrap(cs[j])>> ELSE <<>>)
         \o some_cells_from(cs, j + 1)
some_cells(cs) == some_cells_from(cs, 0)

(***************************************************************************)
(* The program: build the grid from a mask, then run one algorithm.        *)
(***************************************************************************)
Algorithms == {"BinaryTree", "Sidewinder", "AldousBroder", "Wilsons",
               "HuntAndKill", "RecursiveBacktracker", "None"}

NoCell == Cell_new(Point_new(0, 0))

(***************************************************************************)
(* distances.rs: `cells` is a HashMap<Point, usize>, here a function whose *)
(* domain is the set of recorded points.                                   *)
(***************************************************************************)
EmptyMap == [p \in {} |-> 0]

\* Distances::new
Distances_new(root) == [root |-> root, cells |-> EmptyMap]

\* Distances::distance: Option<usize>
Distances_distance(d, point) ==
    IF point \in DOMAIN d.cells THEN Some(d.cells[point]) ELSE None

\* HashMap::insert
insert(m, k, v) == [p \in DOMAIN m \cup {k} |-> IF p = k THEN v ELSE m[p]]

\* Distances::compute, `for link in cell.unwrap().links()`: the map and the
\* new frontier after the links of the cell at `point` from position k on.
RECURSIVE compute_links(_, _, _, _, _)
compute_links(m, new_frontier, links, k, point) ==
    IF k > Len(links)
    THEN [cells |-> m, new_frontier |-> new_frontier]
    ELSE IF links[k] \in DOMAIN m
         THEN compute_links(m, new_frontier, links, k + 1, point)
         ELSE compute_links(insert(m, links[k], m[point] + 1),
                            Append(new_frontier, links[k]), links, k + 1, point)

\* Distances::compute, `for point in frontier`: points that are not cells of
\* the grid are skipped.
RECURSIVE compute_frontier(_, _, _, _, _)
compute_frontier(m, new_frontier, frontier, k, cs) ==
    IF k > Len(frontier)
    THEN [cells |-> m, new_frontier |-> new_frontier]
    ELSE LET c == get(cs, frontier[k])
         IN  IF c = None
             THEN compute_frontier(m, new_frontier, frontier, k + 1, cs)
             ELSE LET r == compute_links(m, new_frontier, Cell_links(unwrap(c)),
                                         1, frontier[k])
                  IN  compute_frontier(r.cells, r.new_frontier, frontier, k + 1, cs)

\* Distances::compute, `while !frontier.is_empty()`.
RECURSIVE compute_while(_, _, _)
compute_while(m, frontier, cs) ==
    IF Len(frontier) = 0
    THEN m
    ELSE LET r == compute_frontier(m, <<>>, frontier, 1, cs)
         IN  compute_while(r.cells, r.new_frontier, cs)

\* Distances::compute: the root is inserted with 0 into the map as it is
\* (nothing is removed first), then the frontier loop runs.
Distances_compute(d, cs) ==
    [root |-> d.root, cells |-> compute_while(insert(d.cells, d.root, 0), <<d.root>>, cs)]

\* Option<usize> compared with `<`: None is below every Some.
Option_lt(a, b) ==
    IF b = None THEN FALSE
    ELSE IF a = None THEN TRUE
    ELSE unwrap(a) < unwrap(b)

\* Distances::shortest_path_to, `while current != self.root` with `cur` for
\* the local `current`: the first link of the current cell with a smaller distance becomes current. The outcome
\* is "ok" with the breadcrumbs, "panic" (unwrap of None: current is not a
\* cell, or the neighbor has no distance) or "hang" (no link has a smaller
\* distance, so the while loop repeats unchanged for ever).
RECURSIVE shortest_path_while(_, _, _, _)
shortest_path_while(d, cs, cur, breadcrumbs) ==
    IF cur = d.root
    THEN [outcome |-> "ok", value |-> breadcrumbs]
    ELSE LET c == get(cs, cur)
         IN  IF c = None
             THEN [outcome |-> "panic", value |-> breadcrumbs]
             ELSE LET links == Cell_links(unwrap(c))
                      smaller == {k \in 1..Len(links) :
                                    Option_lt(Distances_distance(d, links[k]),
                                              Distances_distance(d, cur))}
                  IN  IF smaller = {}
                      THEN [outcome |-> "hang", value |-> breadcrumbs]
                      ELSE LET neighbor == links[Min(smaller)]
                           IN  IF Distances_distance(d, neighbor) = None
                               THEN [outcome |-> "panic", value |-> breadcrumbs]
                               ELSE shortest_path_while(d, cs, neighbor,
                                        [breadcrumbs EXCEPT !.cells =
                                            insert(@, neighbor, d.cells[neighbor])])

\* Distances::shortest_path_to
Distances_shortest_path_to(d, cs, goal) ==
    IF Distances_distance(d, goal) = None
    THEN [outcome |-> "panic", value |-> Distances_new(d.root)]
    ELSE shortest_path_while(d, cs, goal,
            [root |-> d.root, cells |-> insert(EmptyMap, goal, d.cells[goal])])

\* Distances::max, the scan of grid.cells() from index j on with the best
\* pair so far.
RECURSIVE max_scan(_, _, _, _, _)
max_scan(d, cs, j, max_distance, max_point) ==
    IF j >= Cardinality(DOMAIN cs)
    THEN <<max_distance, max_point>>
    ELSE IF cs[j] = None \/ Distances_distance(d, unwrap(cs[j]).point) = None
         THEN max_scan(d, cs, j + 1, max_distance, max_point)
         ELSE LET distance == d.cells[unwrap(cs[j]).point]
              IN  IF distance > max_distance
                  THEN max_scan(d, cs, j + 1, distance, unwrap(cs[j]).point)
                  ELSE max_scan(d, cs, j + 1, max_distance, max_point)

\* Distances::max
Distances_max(d, cs) == max_scan(d, cs, 0, 0, d.root)

\* Maskable::from_mask, its second part: the Distances of the new grid,
\* rooted at the first present cell, or at (0, 0) as RectangularGrid::new
\* leaves it when no cell is present.
from_mask_distances(cs, w) ==
    LET present == {j \in DOMAIN cs : cs[j] /= None}
    IN  IF present = {}
        THEN Distances_new(Point_new(0, 0))
        ELSE Distances_new(Point_new(Min(present) % w, Min(present) \div w))

\* Mask::new: the fully-open mask.
Mask_new(w, h) == [j \in 0..(w * h - 1) |-> TRUE]

\* Mask::set
Mask_set(m, w, point, value) == [m EXCEPT ![point.x + point.y * w] = value]

\* The mask of the text file "3 3\n.x.\n...\n.x." (Mask::from_txt), and the
\* 3x3 masks that leave one cell.
ScenarioMask ==
    Mask_set(Mask_set(Mask_new(3, 3), 3, Point_new(1, 0), FALSE),
             3, Point_new(1, 2), FALSE)
Scenarios(w, h) ==
    IF w = 3 /\ h = 3
    THEN {ScenarioMask}
         \cup {[j \in 0..8 |-> j = k] : k \in {0, 4}}
    ELSE {}

\* Mask::from_txt, `for (x, c) in line.chars().enumerate()` from position x
\* on: '.' and 'x' set the entry at x + y * width, any other character
\* panics, and so does Mask::set when that index is outside the Vec.
RECURSIVE from_txt_chars(_, _, _, _, _)
from_txt_chars(m, w, line, x, y) ==
    IF x >= Len(line)
    THEN [panic |-> FALSE, mask |-> m]
    ELSE IF line[x + 1] \notin {".", "x"}
         THEN [panic |-> TRUE, mask |-> m]
         ELSE IF x + y * w \notin DOMAIN m
              THEN [panic |-> TRUE, mask |-> m]
              ELSE from_txt_chars(Mask_set(m, w, Point_new(x, y), line[x + 1] = "."),
                                  w, line, x + 1, y)

\* Mask::from_txt, `for (y, line) in lines.enumerate()` from line y on.
RECURSIVE from_txt_lines(_, _, _, _)
from_txt_lines(m, w, lines, y) ==
    IF y >= Len(lines)
    THEN [panic |-> FALSE, mask |-> m]
    ELSE LET r == from_txt_chars(m, w, lines[y + 1], 0, y)
         IN  IF r.panic THEN r ELSE from_txt_lines(r.mask, w, lines, y + 1)

\* Mask::from_txt on a file whose first line declares t.width and t.height
\* and whose further lines are t.lines.
Mask_from_txt(t) == from_txt_lines(Mask_new(t.width, t.height), t.width, t.lines, 0)

\* The masks the model builds a w x h grid from.
Masks(w, h) ==
    IF w * h <= MaxMaskCells
    THEN [0..(w * h - 1) -> BOOLEAN]
    ELSE {Mask_new(w, h)} \cup Scenarios(w, h)

Init ==
    /\ width \in 1..MaxW
    /\ height \in 1..MaxH
    /\ width * height <= MaxCells
    /\ mask \in Masks(width, height)
    /\ cells = from_mask(mask, width, height)
    /\ alg \in Algorithms
    /\ pc = "on"
    /\ index = 0
    /\ i = 0
    /\ actions = <<>>
    /\ run = <<>>
    /\ cell = NoCell
    /\ unvisited = 0
    /\ w_unvisited = <<>>
    /\ path = <<>>
    /\ current = None
    /\ stack = <<>>
    /\ walked = {}
    /\ link_call = None
    /\ dist = from_mask_distances(cells, width)
    /\ ret = None
    /\ txt = None

\* Algorithm::on: dispatch on the algorithm.
on ==
    /\ pc = "on"
    /\ pc' = CASE alg = "BinaryTree" -> "bt_scan"
               [] alg = "Sidewinder" -> "sw_scan"
               [] alg = "AldousBroder" -> "random_cell"
               [] alg = "Wilsons" -> "w_init"
               [] alg = "HuntAndKill" -> "random_cell"
               [] alg = "RecursiveBacktracker" -> "random_cell"
               [] OTHER -> "done"
    /\ UNCHANGED <<mask, width, height, cells, alg, index, i, actions, run,
                   cell, unvisited, w_unvisited, path, current, stack, walked>>
    /\ UNCHANGED <<dist, ret, txt>>
    /\ link_call' = None

\* binary_tree's `neighbors` with the east neighbour forgotten.
binary_tree_neighbors_north_only(cs, c) ==
    push_some(<<>>, get(cs, c.north.point))

\* binary_tree's `neighbors` taken from the south and west slots.
binary_tree_neighbors_south_west(cs, c) ==
    push_some(push_some(<<>>, get(cs, c.south.point)), get(cs, c.west.point))

\* binary_tree: the `neighbors` of a cell, its present north and east cells.
binary_tree_neighbors(cs, c) ==
    push_some(push_some(<<>>, get(cs, c.north.point)), get(cs, c.east.point))

\* binary_tree, first loop: one cell of grid.cells() per step.
binary_tree_scan ==
    /\ pc = "bt_scan"
    /\ IF i < Cardinality(DOMAIN cells)
       THEN /\ i' = i + 1
            /\ pc' = pc
            /\ IF cells[i] = None
               THEN actions' = actions
               ELSE LET c == unwrap(cells[i])
                        neighbors == binary_tree_neighbors(cells, c)
                    IN  IF neighbors = <<>>
                        THEN actions' = actions
                        ELSE \E idx \in 1..Len(neighbors) :
                               actions' = Append(actions,
                                             <<c.point, neighbors[idx].point>>)
       ELSE /\ i' = 0
            /\ pc' = "bt_link"
            /\ actions' = actions
    /\ UNCHANGED <<mask, width, height, cells, alg, index, run, cell,
                   unvisited, w_unvisited, path, current, stack, walked>>
    /\ UNCHANGED <<dist, ret, txt>>
    /\ link_call' = None

\* binary_tree, second loop: one grid.link per step.
binary_tree_link ==
    /\ pc = "bt_link"
    /\ IF i < Len(actions)
       THEN LET r == Grid_link(cells, width, actions[i + 1][1], actions[i + 1][2], TRUE)
            IN  /\ cells' = r.cells
                /\ link_call' = LinkCall(actions[i + 1][1], actions[i + 1][2], TRUE)
                /\ pc' = IF r.panic THEN "panic" ELSE pc
                /\ i' = i + 1
       ELSE /\ pc' = "done"
            /\ link_call' = None
            /\ UNCHANGED <<cells, i>>
    /\ UNCHANGED <<mask, width, height, alg, index, actions, run, cell,
                   unvisited, w_unvisited, path, current, stack, walked>>
    /\ UNCHANGED <<dist, ret, txt>>

\* `should_close_out` without the forced close at the eastern boundary.
should_close_out_no_east(c, w, coin) ==
    LET at_northern_boundary == c.north.point.y <= 0
    IN  ~at_northern_boundary /\ coin

\* sidewinder: `should_close_out` for cell c, given the coin gen_bool(0.5).
should_close_out(c, w, coin) ==
    LET at_eastern_boundary == c.east.point.x = w
        at_northern_boundary == c.north.point.y <= 0
    IN  at_eastern_boundary \/ (~at_northern_boundary /\ coin)

\* sidewinder, first loop: one cell of one row of grid.iter_rows() per step;
\* `run` starts empty in every row.
sidewinder_scan ==
    /\ pc = "sw_scan"
    /\ IF i < Cardinality(DOMAIN cells)
       THEN LET run0 == IF i % width = 0 THEN <<>> ELSE run
            IN  /\ i' = i + 1
                /\ pc' = pc
                /\ IF cells[i] = None
                   THEN /\ run' = run0
                        /\ actions' = actions
                   ELSE LET c == unwrap(cells[i])
                            run1 == Append(run0, c)
                        IN  \E coin \in BOOLEAN :
                                  IF should_close_out(c, width, coin)
                                  THEN \E idx \in 1..Len(run1) :
                                         LET member == run1[idx]
                                             north == member.north.point
                                         IN  /\ actions' = Append(actions,
                                                              <<member.point, north>>)
                                             /\ run' = <<>>
                                  ELSE /\ actions' = Append(actions,
                                                        <<c.point, c.east.point>>)
                                       /\ run' = run1
       ELSE /\ i' = 0
            /\ pc' = "sw_link"
            /\ run' = <<>>
            /\ actions' = actions
    /\ UNCHANGED <<mask, width, height, cells, alg, index, cell,
                   unvisited, w_unvisited, path, current, stack, walked>>
    /\ UNCHANGED <<dist, ret, txt>>
    /\ link_call' = None

\* sidewinder, second loop: one grid.link per step.
sidewinder_link ==
    /\ pc = "sw_link"
    /\ IF i < Len(actions)
       THEN LET r == Grid_link(cells, width, actions[i + 1][1], actions[i + 1][2], TRUE)
            IN  /\ cells' = r.cells
                /\ link_call' = LinkCall(actions[i + 1][1], actions[i + 1][2], TRUE)
                /\ pc' = IF r.panic THEN "panic" ELSE pc
                /\ i' = i + 1
       ELSE /\ pc' = "done"
            /\ link_call' = None
            /\ UNCHANGED <<cells, i>>
    /\ UNCHANGED <<mask, width, height, alg, index, actions, run, cell,
                   unvisited, w_unvisited, path, current, stack, walked>>
    /\ UNCHANGED <<dist, ret, txt>>

\* aldous_broder's counter started one too high.
aldous_broder_unvisited_all(w, h) == w * h

\* aldous_broder: the initial value of the counter `unvisited`.
aldous_broder_unvisited(w, h) == w * h - 1

\* Grid::random_cell, one draw per step: a draw of an empty slot is followed
\* by another draw (`while cell.is_none()`); a present cell is returned to
\* the algorithm that asked for it, which sets up its loop.
random_cell ==
    /\ pc = "random_cell"
    /\ \E idx \in 0..(Cardinality(DOMAIN cells) - 1) :
         IF cells[idx] = None
         THEN /\ index' = idx
              /\ UNCHANGED <<pc, cell, unvisited, current, stack, walked>>
         ELSE /\ index' = 0
              /\ CASE alg = "AldousBroder" ->
                        /\ cell' = unwrap(cells[idx])
                        /\ unvisited' = aldous_broder_unvisited(width, height)
                        /\ walked' = {unwrap(cells[idx]).point}
                        /\ pc' = "ab_loop"
                        /\ UNCHANGED <<current, stack>>
                   [] alg = "HuntAndKill" ->
                        /\ current' = Some(unwrap(cells[idx]))
                        /\ pc' = "hk_loop"
                        /\ UNCHANGED <<cell, unvisited, stack, walked>>
                   [] OTHER ->
                        /\ stack' = <<unwrap(cells[idx]).point>>
                        /\ pc' = "rb_loop"
                        /\ UNCHANGED <<cell, unvisited, current, walked>>
    /\ UNCHANGED <<mask, width, height, cells, alg, i, actions, run,
                   w_unvisited, path>>
    /\ UNCHANGED <<dist, ret, txt>>
    /\ link_call' = None

\* aldous_broder: one iteration of `while unvisited > 0` per step; gen_range
\* panics on the empty range of a cell without neighbours.
aldous_broder_step ==
    /\ pc = "ab_loop"
    /\ IF unvisited > 0
       THEN LET neighbors == Cell_neighbors(cell, cells)
            IN  IF neighbors = <<>>
                THEN /\ pc' = "panic"
                     /\ link_call' = None
                     /\ UNCHANGED <<cells, cell, unvisited, walked>>
                ELSE \E random_index \in 1..Len(neighbors) :
                       LET neighbor == neighbors[random_index]
                       IN  /\ IF Len(Cell_links(neighbor)) = 0
                              THEN LET r == Grid_link(cells, width, cell.point,
                                                      neighbor.point, TRUE)
                                   IN  /\ cells' = r.cells
                                       /\ link_call' = LinkCall(cell.point,
                                                                neighbor.point, TRUE)
                                       /\ pc' = IF r.panic THEN "panic" ELSE pc
                                       /\ unvisited' = unvisited - 1
                              ELSE /\ link_call' = None
                                   /\ UNCHANGED <<cells, pc, unvisited>>
                           /\ cell' = neighbor
                           /\ walked' = walked \cup {neighbor.point}
       ELSE /\ pc' = "done"
            /\ link_call' = None
            /\ UNCHANGED <<cells, cell, unvisited, walked>>
    /\ UNCHANGED <<mask, width, height, alg, index, i, actions, run,
                   w_unvisited, path, current, stack>>
    /\ UNCHANGED <<dist, ret, txt>>

\* wilsons, before the loop: collect the present cells and remove one.
wilsons_init ==
    /\ pc = "w_init"
    /\ LET all == some_cells(cells)
       IN  IF all = <<>>
           THEN /\ pc' = "panic"
                /\ w_unvisited' = all
           ELSE \E idx \in 1..Len(all) :
                  /\ w_unvisited' = [k \in 1..(Len(all) - 1) |->
                                        IF k < idx THEN all[k] ELSE all[k + 1]]
                  /\ pc' = "w_outer"
    /\ UNCHANGED <<mask, width, height, cells, alg, index, i, actions, run,
                   cell, unvisited, path, current, stack, walked>>
    /\ UNCHANGED <<dist, ret, txt>>
    /\ link_call' = None

\* wilsons, `while !unvisited.is_empty()`: pick the cell a walk starts from.
wilsons_pick ==
    /\ pc = "w_outer"
    /\ IF w_unvisited /= <<>>
       THEN \E idx \in 1..Len(w_unvisited) :
              /\ cell' = w_unvisited[idx]
              /\ path' = <<w_unvisited[idx]>>
              /\ pc' = "w_walk"
       ELSE /\ pc' = "done"
            /\ UNCHANGED <<cell, path>>
    /\ UNCHANGED <<mask, width, height, cells, alg, index, i, actions, run,
                   unvisited, w_unvisited, current, stack, walked>>
    /\ UNCHANGED <<dist, ret, txt>>
    /\ link_call' = None

\* wilsons' path truncated one element too early (truncate(position)).
wilsons_path_short(p, c) ==
    IF contains(p, c) THEN SubSeq(p, 1, position(p, c) - 1) ELSE Append(p, c)

\* wilsons' path without the truncation: every cell stepped onto is pushed.
wilsons_path_push(p, c) == Append(p, c)

\* wilsons: the path after the walk steps onto c: truncated after c's first
\* occurrence, or extended by c.
wilsons_path(p, c) ==
    IF contains(p, c) THEN SubSeq(p, 1, position(p, c)) ELSE Append(p, c)

\* wilsons, `while unvisited.contains(&cell)`: one step of the walk, with the
\* path truncated at a repeated cell.
wilsons_walk ==
    /\ pc = "w_walk"
    /\ IF contains(w_unvisited, cell)
       THEN LET neighbors == Cell_neighbors(cell, cells)
            IN  IF neighbors = <<>>
                THEN /\ pc' = "panic"
                     /\ UNCHANGED <<cell, path, i>>
                ELSE \E idx \in 1..Len(neighbors) :
                       LET c == neighbors[idx]
                       IN  /\ cell' = c
                           /\ path' = wilsons_path(path, c)
                           /\ UNCHANGED <<pc, i>>
       ELSE /\ pc' = "w_link"
            /\ i' = 0
            /\ UNCHANGED <<cell, path>>
    /\ UNCHANGED <<mask, width, height, cells, alg, index, actions, run,
                   unvisited, w_unvisited, current, stack, walked>>
    /\ UNCHANGED <<dist, ret, txt>>
    /\ link_call' = None

\* wilsons, `for i in 0..path.len() - 1`: one grid.link and one retain per step.
wilsons_link ==
    /\ pc = "w_link"
    /\ IF i < Len(path) - 1
       THEN LET r == Grid_link(cells, width, path[i + 1].point, path[i + 2].point, TRUE)
            IN  /\ cells' = r.cells
                /\ link_call' = LinkCall(path[i + 1].point, path[i + 2].point, TRUE)
                /\ pc' = IF r.panic THEN "panic" ELSE pc
                /\ w_unvisited' = retain_ne(w_unvisited, path[i + 1])
                /\ i' = i + 1
       ELSE /\ pc' = "w_outer"
            /\ link_call' = None
            /\ i' = 0
            /\ UNCHANGED <<cells, w_unvisited>>
    /\ UNCHANGED <<mask, width, height, alg, index, actions, run, cell,
                   unvisited, path, current, stack, walked>>
    /\ UNCHANGED <<dist, ret, txt>>

\* A hunt that never finds a cell.
hunt_target_none(cs) == None

\* A hunt that takes the last cell of the snapshot that qualifies instead of
\* breaking at the first.
hunt_target_last(cs) ==
    LET snapshot == some_cells(cs)
        hit == {k \in 1..Len(snapshot) :
                   /\ Cell_links(snapshot[k]) = <<>>
                   /\ \E n \in 1..Len(Cell_neighbors(snapshot[k], cs)) :
                        Cell_links(Cell_neighbors(snapshot[k], cs)[n]) /= <<>>}
    IN  IF hit = {} THEN None
        ELSE Some(snapshot[CHOOSE k \in hit : \A j \in hit : j <= k])

\* hunt_and_kill, the hunt: the first cell of the snapshot that has no links
\* and a neighbour with links, or None.
hunt_target(cs) ==
    LET snapshot == some_cells(cs)
        hit == {k \in 1..Len(snapshot) :
                   /\ Cell_links(snapshot[k]) = <<>>
                   /\ \E n \in 1..Len(Cell_neighbors(snapshot[k], cs)) :
                        Cell_links(Cell_neighbors(snapshot[k], cs)[n]) /= <<>>}
    IN  IF hit = {} THEN None ELSE Some(snapshot[Min(hit)])

\* hunt_and_kill: one iteration of `while current.is_some()` per step.
hunt_and_kill_step ==
    /\ pc = "hk_loop"
    /\ IF current /= None
       THEN LET neighbors == Cell_neighbors(unwrap(current), cells)
                unvisited_neighbors ==
                    SelectSeq(neighbors, LAMBDA n : Cell_links(n) = <<>>)
            IN  IF unvisited_neighbors /= <<>>
                THEN \E idx \in 1..Len(unvisited_neighbors) :
                       LET neighbor == unvisited_neighbors[idx]
                           r == Grid_link(cells, width, unwrap(current).point,
                                          neighbor.point, TRUE)
                       IN  /\ cells' = r.cells
                           /\ link_call' = LinkCall(unwrap(current).point,
                                                    neighbor.point, TRUE)
                           /\ pc' = IF r.panic THEN "panic" ELSE pc
                           /\ current' = Some(neighbor)
                ELSE LET target == hunt_target(cells)
                     IN  IF target = None
                         THEN /\ current' = None
                              /\ link_call' = None
                              /\ UNCHANGED <<cells, pc>>
                         ELSE LET c == unwrap(target)
                                  visited_neighors ==
                                      SelectSeq(Cell_neighbors(c, cells),
                                                LAMBDA n : Cell_links(n) /= <<>>)
                              IN  \E idx \in 1..Len(visited_neighors) :
                                    LET neighbor == visited_neighors[idx]
                                        r == Grid_link(cells, width, c.point,
                                                       neighbor.point, TRUE)
                                    IN  /\ cells' = r.cells
                                        /\ link_call' = LinkCall(c.point,
                                                                 neighbor.point, TRUE)
                                        /\ pc' = IF r.panic THEN "panic" ELSE pc
                                        /\ current' = Some(c)
       ELSE /\ pc' = "done"
            /\ link_call' = None
            /\ UNCHANGED <<cells, current>>
    /\ UNCHANGED <<mask, width, height, alg, index, i, actions, run, cell,
                   unvisited, w_unvisited, path, stack, walked>>
    /\ UNCHANGED <<dist, ret, txt>>

\* recursive_backtracker's `neighbors` filtered on the links of the top of the
\* stack instead of the links of each neighbour.
recursive_backtracker_neighbors_of_top(cs, top) ==
    SelectSeq(Grid_neighbors(cs, top),
              LAMBDA p : Cell_links(unwrap(get(cs, top))) = <<>>)

\* recursive_backtracker's `neighbors` without the filter on links.
recursive_backtracker_neighbors_unfiltered(cs, top) == Grid_neighbors(cs, top)

\* recursive_backtracker: the `neighbors` of the top of the stack, the
\* coordinates of its neighbours that have no links.
recursive_backtracker_neighbors(cs, top) ==
    SelectSeq(Grid_neighbors(cs, top),
              LAMBDA p : Cell_links(unwrap(get(cs, p))) = <<>>)

\* recursive_backtracker: one iteration of `while !stack.is_empty()` per step.
recursive_backtracker_step ==
    /\ pc = "rb_loop"
    /\ IF stack /= <<>>
       THEN LET top == stack[Len(stack)]
                neighbors == recursive_backtracker_neighbors(cells, top)
            IN  IF neighbors = <<>>
                THEN /\ stack' = SubSeq(stack, 1, Len(stack) - 1)
                     /\ link_call' = None
                     /\ UNCHANGED <<cells, pc>>
                ELSE \E idx \in 1..Len(neighbors) :
                       LET neighbor == neighbors[idx]
                           r == Grid_link(cells, width, top, neighbor, TRUE)
                       IN  /\ cells' = r.cells
                           /\ link_call' = LinkCall(top, neighbor, TRUE)
                           /\ pc' = IF r.panic THEN "panic" ELSE pc
                           /\ stack' = Append(stack, unwrap(get(r.cells, neighbor)).point)
       ELSE /\ pc' = "done"
            /\ link_call' = None
            /\ UNCHANGED <<cells, stack>>
    /\ UNCHANGED <<mask, width, height, alg, index, i, actions, run, cell,
                   unvisited, w_unvisited, path, current, walked>>
    /\ UNCHANGED <<dist, ret, txt>>

Next ==
    \/ on
    \/ binary_tree_scan
    \/ binary_tree_link
    \/ sidewinder_scan
    \/ sidewinder_link
    \/ random_cell
    \/ aldous_broder_step
    \/ wilsons_init
    \/ wilsons_pick
    \/ wilsons_walk
    \/ wilsons_link
    \/ hunt_and_kill_step
    \/ recursive_backtracker_step

Spec == Init /\ [][Next]_vars

\* The run as a process that keeps executing: while a step of the program is
\* possible, one is taken. Nothing is assumed about which random values are
\* drawn.
SpecLive == Init /\ [][Next]_vars /\ WF_vars(Next)

(***************************************************************************)
(* Grid::link as an operation of its own: a caller links any two points of *)
(* the lattice or of the ring around it, one-sided or two-sided, on a grid *)
(* built from any mask; i counts the calls.                                *)
(***************************************************************************)
InitLink == Init /\ alg = "None" /\ width * height <= MaxLinkCells

\* grid.link(a, b, bidi)
link ==
    /\ pc = "on"
    /\ i < MaxLinkCalls
    /\ \E ax \in -1..width, ay \in -1..height, bx \in -1..width, by \in -1..height,
          bidi \in BOOLEAN :
         LET a == Point_new(ax, ay)
             b == Point_new(bx, by)
             r == Grid_link(cells, width, a, b, bidi)
         IN  /\ cells' = r.cells
             /\ pc' = IF r.panic THEN "panic" ELSE pc
             /\ link_call' = LinkCall(a, b, bidi)
    /\ i' = i + 1
    /\ UNCHANGED <<mask, width, height, alg, index, actions, run, cell,
                   unvisited, w_unvisited, path, current, stack, walked,
                   dist, ret, txt>>

NextLink == link

SpecLink == InitLink /\ [][NextLink]_vars

(***************************************************************************)
(* main with --mask: the mask is read from a text file, then the grid is   *)
(* built from it.  The files have a well-formed first line "W H" and, as   *)
(* cell lines, up to H + 1 lines of up to W + 1 characters out of '.', 'x' *)
(* and one other character.                                                *)
(***************************************************************************)
Chars == {".", "x", "#"}
TxtRows(w) == UNION {[1..n -> Chars] : n \in 0..(w + 1)}

InitTxt ==
    /\ \E w \in 1..MaxTxtW, h \in 1..MaxTxtH :
         \E n \in 0..(h + 1) :
            \E ls \in [1..n -> TxtRows(w)] :
                txt = Some([width |-> w, height |-> h, lines |-> ls])
    /\ width = unwrap(txt).width
    /\ height = unwrap(txt).height
    /\ mask = Mask_new(width, height)
    /\ cells = Grid_new(width, height)
    /\ alg = "None"
    /\ pc = "from_txt"
    /\ index = 0
    /\ i = 0
    /\ actions = <<>>
    /\ run = <<>>
    /\ cell = NoCell
    /\ unvisited = 0
    /\ w_unvisited = <<>>
    /\ path = <<>>
    /\ current = None
    /\ stack = <<>>
    /\ walked = {}
    /\ link_call = None
    /\ dist = Distances_new(Point_new(0, 0))
    /\ ret = None

\* generate_maze, `Mask::from_txt(&mask)`: the mask returned, or a panic.
from_txt ==
    /\ pc = "from_txt"
    /\ LET r == Mask_from_txt(unwrap(txt))
       IN  IF r.panic
           THEN /\ pc' = "panic"
                /\ UNCHANGED mask
           ELSE /\ pc' = "from_mask"
                /\ mask' = r.mask
    /\ UNCHANGED <<width, height, cells, alg, index, i, actions, run, cell,
                   unvisited, w_unvisited, path, current, stack, walked,
                   link_call, dist, ret, txt>>

\* generate_maze, `RectangularGrid::from_mask(&mask)`.
generate_maze_from_mask ==
    /\ pc = "from_mask"
    /\ cells' = from_mask(mask, width, height)
    /\ dist' = from_mask_distances(cells', width)
    /\ pc' = "grid"
    /\ UNCHANGED <<mask, width, height, alg, index, i, actions, run, cell,
                   unvisited, w_unvisited, path, current, stack, walked,
                   link_call, ret, txt>>

NextTxt ==
    \/ from_txt
    \/ generate_maze_from_mask

SpecTxt == InitTxt /\ [][NextTxt]_vars

(***************************************************************************)
(* Distances on top of the generation run.  Grid::distances is a public    *)
(* field of the grid and Distances::root a public field of Distances, so a *)
(* caller may replace, re-root and compute the distances in any state of   *)
(* the grid; main computes them once, after generation.  The queries are   *)
(* asked of the finished grid.                                             *)
(***************************************************************************)
GridIdle == pc \notin {"panic", "shortest_path_to"}

\* grid.distances = Distances::new(point), as from_mask does for its root.
new_distances ==
    /\ GridIdle
    /\ \E point \in {unwrap(cells[j]).point : j \in {k \in DOMAIN cells : cells[k] /= None}} :
         dist' = Distances_new(point)
    /\ ret' = None
    /\ link_call' = None
    /\ UNCHANGED <<mask, width, height, cells, alg, pc, index, i, actions, run,
                   cell, unvisited, w_unvisited, path, current, stack, walked, txt>>

\* distances.root = point: the entries of the map stay as they are.
set_root ==
    /\ GridIdle
    /\ \E point \in {unwrap(cells[j]).point : j \in {k \in DOMAIN cells : cells[k] /= None}} :
         dist' = [dist EXCEPT !.root = point]
    /\ ret' = None
    /\ link_call' = None
    /\ UNCHANGED <<mask, width, height, cells, alg, pc, index, i, actions, run,
                   cell, unvisited, w_unvisited, path, current, stack, walked, txt>>

\* grid.distances.compute(grid.clone())
compute ==
    /\ GridIdle
    /\ dist' = Distances_compute(dist, cells)
    /\ ret' = None
    /\ link_call' = None
    /\ UNCHANGED <<mask, width, height, cells, alg, pc, index, i, actions, run,
                   cell, unvisited, w_unvisited, path, current, stack, walked, txt>>

\* distances.shortest_path_to(&grid, goal) for a goal with a recorded
\* distance; a panic ends the program, a loop that cannot advance keeps it
\* at this call.
shortest_path_to ==
    /\ pc = "done"
    /\ \E goal \in DOMAIN dist.cells :
         LET r == Distances_shortest_path_to(dist, cells, goal)
         IN  /\ ret' = Some([op |-> "shortest_path_to", goal |-> goal,
                             outcome |-> r.outcome, value |-> r.value])
             /\ pc' = CASE r.outcome = "ok" -> pc
                         [] r.outcome = "panic" -> "panic"
                         [] OTHER -> "shortest_path_to"
    /\ link_call' = None
    /\ UNCHANGED <<mask, width, height, cells, alg, index, i, actions, run,
                   cell, unvisited, w_unvisited, path, current, stack, walked,
                   dist, txt>>

\* distances.max(&grid)
max ==
    /\ pc = "done"
    /\ ret' = Some([op |-> "max", goal |-> dist.root, outcome |-> "ok",
                    value |-> Distances_max(dist, cells)])
    /\ link_call' = None
    /\ UNCHANGED <<mask, width, height, cells, alg, pc, index, i, actions, run,
                   cell, unvisited, w_unvisited, path, current, stack, walked,
                   dist, txt>>

InitDist == Init /\ width * height <= MaxDistCells

NextDist ==
    \/ Next
    \/ new_distances
    \/ set_root
    \/ compute
    \/ shortest_path_to
    \/ max

SpecDist == InitDist /\ [][NextDist]_vars

(***************************************************************************)
(* Distances over a grid linked by hand: any calls of Grid::link, one- or  *)
(* two-sided, on a grid no algorithm runs on (Algorithm::None), then       *)
(* compute and shortest_path_to.                                           *)
(***************************************************************************)
InitPath == Init /\ alg = "None" /\ width * height <= MaxPathCells

NextPath ==
    \/ link
    \/ on
    \/ compute
    \/ shortest_path_to

SpecPath == InitPath /\ [][NextPath]_vars

(***************************************************************************)
(* The maze as a graph.  A link is a pair of present, lattice-adjacent     *)
(* cells whose facing slots are both marked linked.                        *)
(***************************************************************************)
SixAlgorithms == Algorithms \ {"None"}

Abs(n) == IF n < 0 THEN -n ELSE n
Adjacent(p, q) == Abs(p.x - q.x) + Abs(p.y - q.y) = 1

PresentCells(cs) == {unwrap(cs[j]) : j \in {k \in DOMAIN cs : cs[k] /= None}}
PresentPoints(cs) == {c.point : c \in PresentCells(cs)}

\* The points the mask keeps, and the points of the whole lattice.
UnmaskedPoints == {Point_new(j % width, j \div width) : j \in {k \in DOMAIN mask : mask[k]}}
LatticePoints == {Point_new(j % width, j \div width) : j \in DOMAIN mask}
FullyOpen == \A j \in DOMAIN mask : mask[j]

\* The slots of a cell, and the cell's slot toward q being marked linked.
Slots(c) == {c.north, c.east, c.south, c.west}
LinkedToward(c, q) == \E s \in Slots(c) : s.point = q /\ s.linked

Links(cs) ==
    {{a.point, b.point} : <<a, b>> \in
        {ab \in PresentCells(cs) \X PresentCells(cs) :
            /\ Adjacent(ab[1].point, ab[2].point)
            /\ LinkedToward(ab[1], ab[2].point)
            /\ LinkedToward(ab[2], ab[1].point)}}

\* The points reachable from the points of `seen` over the edges of `edges`.
RECURSIVE ReachFrom(_, _)
ReachFrom(seen, edges) ==
    LET more == {q \in UNION edges : \E e \in edges : q \in e /\ e \cap seen /= {}}
    IN  IF more \subseteq seen THEN seen ELSE ReachFrom(seen \cup more, edges)

\* Every point of `points` reaches every other over the edges.
ConnectedOver(points, edges) ==
    \A p \in points : points \subseteq ReachFrom({p}, edges)

\* The links of cs form a spanning tree of `points`: one edge less than
\* points, all between points of the set, and one component.
SpanningTree(cs, points) ==
    /\ Cardinality(Links(cs)) = Cardinality(points) - 1
    /\ UNION Links(cs) \subseteq points
    /\ ConnectedOver(points, Links(cs))

\* The lattice edges between the points the mask keeps.
LatticeEdges(points) ==
    {{p, q} : <<p, q>> \in {pq \in points \X points : Adjacent(pq[1], pq[2])}}
MaskConnected == UnmaskedPoints /= {} /\ ConnectedOver(UnmaskedPoints, LatticeEdges(UnmaskedPoints))

\* C1: Recursive Backtracker on a fully-unmasked W x H grid, from any start
\* cell and for any random choices, never fails and ends with exactly
\* W*H - 1 links and with every cell reachable from every other.
RecursiveBacktrackerSpanningTree ==
    (alg = "RecursiveBacktracker" /\ FullyOpen) =>
        /\ pc /= "panic"
        /\ pc = "done" =>
             /\ Cardinality(Links(cells)) = width * height - 1
             /\ ConnectedOver(LatticePoints, Links(cells))
             /\ PresentPoints(cells) = LatticePoints

RecursiveBacktrackerDone ==
    /\ alg = "RecursiveBacktracker" /\ FullyOpen /\ pc = "done"
    /\ width = 3 /\ height = 3
    /\ Cardinality(Links(cells)) = 8

\* C2: Wilson's algorithm on a fully-unmasked W x H grid never fails, stops
\* only with its unvisited list empty, and at that point the grid has exactly
\* W*H - 1 links, every cell reachable from every other (so no cycle).
WilsonsSpanningTree ==
    (alg = "Wilsons" /\ FullyOpen) =>
        /\ pc /= "panic"
        /\ pc = "done" =>
             /\ w_unvisited = <<>>
             /\ Cardinality(Links(cells)) = width * height - 1
             /\ ConnectedOver(LatticePoints, Links(cells))

WilsonsDone ==
    /\ alg = "Wilsons" /\ FullyOpen /\ pc = "done"
    /\ width = 3 /\ height = 3
    /\ Cardinality(Links(cells)) = 8

\* C3: Aldous-Broder on a fully-unmasked W x H grid, from any start cell: a
\* step of the walk adds a link exactly when it enters a cell the walk has
\* not stood on before, and the link joins that cell to the cell the walk
\* came from; the walk stops exactly when it has stood on every cell; it
\* then leaves W*H - 1 links with every cell reachable from every other.
AldousBroderFirstVisit ==
    [][(alg = "AldousBroder" /\ FullyOpen /\ pc = "ab_loop") =>
          /\ pc' /= "panic"
          /\ (pc' = "done") <=> (walked = LatticePoints)
          /\ pc' = "ab_loop" =>
               /\ Adjacent(cell.point, cell'.point)
               /\ IF cell'.point \notin walked
                  THEN /\ {cell.point, cell'.point} \notin Links(cells)
                       /\ Links(cells') = Links(cells) \cup {{cell.point, cell'.point}}
                  ELSE cells' = cells
          /\ pc' = "done" =>
               /\ Cardinality(Links(cells')) = width * height - 1
               /\ ConnectedOver(LatticePoints, Links(cells'))]_vars

AldousBroderDone ==
    /\ alg = "AldousBroder" /\ FullyOpen /\ pc = "done"
    /\ width = 3 /\ height = 3
    /\ walked = LatticePoints
    /\ Cardinality(Links(cells)) = 8

\* C4: Hunt-and-Kill on a fully-unmasked W x H grid, from any start cell and
\* for any random choices, never fails and ends with exactly W*H - 1 links
\* and with every cell reachable from every other.
HuntAndKillSpanningTree ==
    (alg = "HuntAndKill" /\ FullyOpen) =>
        /\ pc /= "panic"
        /\ pc = "done" =>
             /\ Cardinality(Links(cells)) = width * height - 1
             /\ ConnectedOver(LatticePoints, Links(cells))

HuntAndKillDone ==
    /\ alg = "HuntAndKill" /\ FullyOpen /\ pc = "done"
    /\ width = 3 /\ height = 3
    /\ Cardinality(Links(cells)) = 8

\* C5: Binary Tree on a fully-unmasked W x H grid records, for every cell
\* with a north or east neighbour in the grid, exactly one choice, and that
\* choice is one of those neighbours; it records none for the cell with
\* neither; the links of the result are exactly the recorded choices, W*H - 1
\* of them, and every cell is reachable from every other.
BinaryTreeChoices ==
    (alg = "BinaryTree" /\ FullyOpen) =>
        /\ pc /= "panic"
        /\ pc = "done" =>
             /\ \A p \in LatticePoints :
                  LET targets == {Point_north(p), Point_east(p)} \cap LatticePoints
                      entries == {k \in 1..Len(actions) : actions[k][1] = p}
                  IN  IF targets = {}
                      THEN entries = {}
                      ELSE /\ Cardinality(entries) = 1
                           /\ \A k \in entries : actions[k][2] \in targets
             /\ Links(cells) = {{actions[k][1], actions[k][2]} : k \in 1..Len(actions)}
             /\ Cardinality(Links(cells)) = width * height - 1
             /\ ConnectedOver(LatticePoints, Links(cells))

BinaryTreeDone ==
    /\ alg = "BinaryTree" /\ FullyOpen /\ pc = "done"
    /\ width = 3 /\ height = 3
    /\ Len(actions) = 8

\* C6: Sidewinder on a fully-unmasked W x H grid, for any coin flips and
\* run-member choices, never fails and ends with exactly W*H - 1 links
\* (pairs of adjacent cells of the grid with both facing slots linked) and
\* with every cell reachable from every other.
SidewinderSpanningTree ==
    (alg = "Sidewinder" /\ FullyOpen) =>
        /\ pc /= "panic"
        /\ pc = "done" =>
             /\ Cardinality(Links(cells)) = width * height - 1
             /\ ConnectedOver(LatticePoints, Links(cells))

SidewinderDone ==
    /\ alg = "Sidewinder" /\ FullyOpen /\ pc = "done"
    /\ width = 3 /\ height = 3
    /\ Cardinality(Links(cells)) = 8

\* C7, as claimed: for every mask whose unmasked cells are lattice-connected
\* and each of the six algorithms, the run ends with the N unmasked cells
\* forming a spanning tree (N - 1 links, one connected component).
AllAlgorithmsSpanMask ==
    (alg \in SixAlgorithms /\ MaskConnected /\ pc = "done") =>
        SpanningTree(cells, UnmaskedPoints)

\* C7, amended: for every mask whose unmasked cells are lattice-connected,
\* Wilson's, Hunt-and-Kill and Recursive Backtracker never fail and end with
\* the N unmasked cells forming a spanning tree (N - 1 links, all between
\* unmasked cells, one component); so they do on the 3x3 mask with (1,0) and
\* (1,2) removed.
WalkAlgorithmsSpanMask ==
    (alg \in {"Wilsons", "HuntAndKill", "RecursiveBacktracker"} /\ MaskConnected) =>
        /\ pc /= "panic"
        /\ pc = "done" => SpanningTree(cells, UnmaskedPoints)

ScenarioMaskDone ==
    /\ alg \in {"Wilsons", "HuntAndKill", "RecursiveBacktracker"}
    /\ width = 3 /\ height = 3 /\ mask = ScenarioMask
    /\ pc = "done"
    /\ Cardinality(Links(cells)) = 6

\* C8: in every state during and after the run of any algorithm on any mask,
\* no cell has a slot marked linked whose target is masked out or outside
\* the lattice.
NoLinkToAbsentCell ==
    \A c \in PresentCells(cells) : \A s \in Slots(c) :
        s.linked => s.point \in PresentPoints(cells)

\* C9: on a grid with exactly one unmasked cell, each of the six algorithms
\* runs without failure and leaves every slot of that cell unlinked.
SingleCellNoLinks ==
    (alg \in SixAlgorithms /\ Cardinality(UnmaskedPoints) = 1) =>
        /\ pc /= "panic"
        /\ \A c \in PresentCells(cells) : \A s \in Slots(c) : ~s.linked

\* C10: in every state during and after the run of any algorithm, for all
\* present adjacent cells a and b, a's slot toward b is marked linked if and
\* only if b's slot toward a is: each link call sets both slots in one step.
LinksSymmetric ==
    \A a \in PresentCells(cells) : \A b \in PresentCells(cells) :
        Adjacent(a.point, b.point) =>
            (LinkedToward(a, b.point) <=> LinkedToward(b, a.point))

LinkedMidRun ==
    /\ pc \in {"bt_link", "sw_link", "ab_loop", "w_link", "hk_loop", "rb_loop"}
    /\ Links(cells) /= {}
    /\ Cardinality(Links(cells)) < Cardinality(PresentPoints(cells)) - 1

\* C20: for every mask and each of the six algorithms, every call
\* link(a, b, true) an algorithm issues has a and b exactly one cardinal step
\* apart with a /= b, and the call does not end in link's invalid-adjacency
\* failure.
AlgorithmLinkCallsAdjacent ==
    (alg \in SixAlgorithms /\ link_call /= None) =>
        /\ unwrap(link_call).bidi
        /\ Adjacent(unwrap(link_call).a, unwrap(link_call).b)
        /\ unwrap(link_call).a /= unwrap(link_call).b
        /\ pc /= "panic"

\* Wilson's links the last pair of a path of three cells on a masked grid.
WilsonsLinkCallIssued ==
    /\ alg = "Wilsons"
    /\ ~FullyOpen
    /\ pc = "w_link"
    /\ Len(path) = 3
    /\ i = 2
    /\ link_call = LinkCall(path[2].point, path[3].point, TRUE)

\* The points the contracts of get and neighbors are probed at: the lattice
\* and one ring around it (negative coordinates, x = width, y = height).
ProbePoints == {Point_new(x, y) : x \in -1..width, y \in -1..height}

\* p is a point of the W x H lattice / a point the mask keeps / a point whose
\* position in the cell array holds a cell.
InLattice(p) == p.x \in 0..(width - 1) /\ p.y \in 0..(height - 1)
Unmasked(p) == InLattice(p) /\ mask[p.y * width + p.x]
Present(p) == InLattice(p) /\ cells[p.y * width + p.x] /= None

\* C13: for every mask, in the grid built from it get(p) is absent for every
\* point whose mask entry is false and for every point outside the lattice
\* (negative coordinates included), and for every point whose mask entry is
\* true it is a cell whose coordinate equals p. Checked on the grid as
\* from_mask returns it and on the grid a generation run leaves.
GetRoundTrip ==
    pc \in {"on", "done", "panic"} =>
        \A p \in ProbePoints :
            IF Unmasked(p)
            THEN get(cells, p) /= None /\ unwrap(get(cells, p)).point = p
            ELSE get(cells, p) = None

\* A freshly built 2-wide grid with (1,0) masked out: get is absent there and
\* at (2,0), whose row-major index is the one of the present cell (0,1).
GetOnMaskedGrid ==
    /\ pc = "on"
    /\ width = 2
    /\ height = 2
    /\ ~mask[1]
    /\ mask[2]
    /\ get(cells, Point_new(1, 0)) = None
    /\ get(cells, Point_new(2, 0)) = None
    /\ point_to_index(cells, width, Point_new(2, 0)) = Some(2)
    /\ unwrap(get(cells, Point_new(0, 1))).point = Point_new(0, 1)

\* C14: neighbors(p) is exactly the coordinates of the cells present one
\* cardinal step from p, each once, in the order north, south, east, west;
\* masked and out-of-bounds positions are omitted. Cell::neighbors gives the
\* cells at the same coordinates in the same order. Checked on the grid
\* before generation (no links) and after it (with the links made).
NeighborsInOrder ==
    pc \in {"on", "done", "panic"} =>
    \A p \in ProbePoints :
        LET nsew == <<Point_north(p), Point_south(p), Point_east(p), Point_west(p)>>
            expected == SelectSeq(nsew, Present)
        IN  /\ Grid_neighbors(cells, p) = expected
            /\ Present(p) =>
                 LET c == unwrap(cells[p.y * width + p.x])
                 IN  Cell_neighbors(c, cells) =
                        [k \in 1..Len(expected) |->
                            unwrap(cells[expected[k].y * width + expected[k].x])]

\* On the 3x3 mask with (1,0) and (1,2) removed, the centre has only its east
\* and west neighbours and (0,1) has north, south and east, in that order.
NeighborsOnScenarioMask ==
    /\ pc = "done"
    /\ width = 3
    /\ height = 3
    /\ mask = ScenarioMask
    /\ Grid_neighbors(cells, Point_new(1, 1)) = <<Point_new(2, 1), Point_new(0, 1)>>
    /\ Grid_neighbors(cells, Point_new(0, 1)) =
           <<Point_new(0, 0), Point_new(0, 2), Point_new(1, 1)>>

\* A step of random_cell that ends its retry loop: the position of the
\* caller moves on, to the caller's loop or to a failure.
random_cell_returns == random_cell /\ pc' /= "random_cell"

\* C12: random_cell on a grid in which every cell is masked out reports an
\* error outcome and never retries forever: whenever the call is under way
\* on such a grid, a step that ends the retry loop is possible.
RandomCellEndsOnEmptyGrid ==
    (pc = "random_cell" /\ \A j \in DOMAIN cells : cells[j] = None) =>
        ENABLED random_cell_returns

(***************************************************************************)
(* Distances as the contracts state them: the least number of links on a   *)
(* path from the root, over the links of the maze graph.                   *)
(***************************************************************************)
RECURSIVE LinkLevels(_, _, _, _)
LinkLevels(m, frontier, n, edges) ==
    IF frontier = {}
    THEN m
    ELSE LET m1 == [p \in DOMAIN m \cup frontier |-> IF p \in DOMAIN m THEN m[p] ELSE n]
             next == {q \in (UNION edges) \ DOMAIN m1 :
                        \E p \in frontier : {p, q} \in edges}
         IN  LinkLevels(m1, next, n + 1, edges)

LinkDistances(cs, root) == LinkLevels(EmptyMap, {root}, 0, Links(cs))

\* C15: compute on a fresh Distances over the grid a generation algorithm
\* has finished leaves the root at 0, every other recorded point at the
\* least number of links from the root, and every point not reachable over
\* links (every point that is not a cell of the grid included) absent.
FreshComputeIsBFS ==
    [][(compute /\ pc = "done" /\ dist.cells = EmptyMap /\ Present(dist.root)) =>
          /\ dist'.root = dist.root
          /\ dist'.cells = LinkDistances(cells, dist.root)]_vars

\* dist is what compute gives on a fresh Distances with the same root over
\* the grid as it is now, the root being a cell of the grid.
FreshlyComputed ==
    /\ Present(dist.root)
    /\ dist = Distances_compute(Distances_new(dist.root), cells)

\* C16: for every goal with a recorded distance d in a computed Distances,
\* shortest_path_to(goal) returns exactly d + 1 points, one at each distance
\* 0..d, among them the goal and the root, each with the distance the
\* Distances records for it and each consecutive pair joined by a link of
\* the grid.
ShortestPathShape ==
    (ret /= None /\ unwrap(ret).op = "shortest_path_to" /\ FreshlyComputed) =>
        LET r == unwrap(ret)
            d == dist.cells[r.goal]
            crumbs == r.value.cells
            at(k) == {p \in DOMAIN crumbs : crumbs[p] = k}
        IN  /\ r.outcome = "ok"
            /\ r.value.root = dist.root
            /\ Cardinality(DOMAIN crumbs) = d + 1
            /\ \A k \in 0..d : Cardinality(at(k)) = 1
            /\ at(d) = {r.goal}
            /\ at(0) = {dist.root}
            /\ \A p \in DOMAIN crumbs : crumbs[p] = dist.cells[p]
            /\ \A k \in 1..d : \E p \in at(k), q \in at(k - 1) : {p, q} \in Links(cells)

\* compute has been run on dist over the grid as it is now: running it
\* again changes nothing.
Computed == Distances_compute(dist, cells) = dist

\* C17: max() returns the greatest distance recorded for any cell of the
\* grid together with a cell holding it; when several cells hold it, the
\* first of them in the row-major order of the grid.
MaxIsGreatestFirstInScan ==
    (ret /= None /\ unwrap(ret).op = "max" /\ Computed /\ Present(dist.root)) =>
        LET recorded == {p \in DOMAIN dist.cells : Present(p)}
            greatest == CHOOSE n \in {dist.cells[p] : p \in recorded} :
                            \A p \in recorded : dist.cells[p] <= n
            holders == {p \in recorded : dist.cells[p] = greatest}
            first == CHOOSE p \in holders :
                        \A q \in holders : p.y * width + p.x <= q.y * width + q.x
        IN  unwrap(ret).value = <<greatest, first>>

\* C18: Distances can be recomputed and re-rooted any number of times: after
\* every call of compute, also on a Distances that already holds entries
\* from an earlier compute, the mapping equals the least numbers of links
\* from the current root over the grid's current links, and the grid's
\* links are unchanged by the call. Stated for grids on which every marked
\* slot leads to a cell.
RecomputeIsBFS ==
    [][(compute /\ dist.cells /= EmptyMap /\ Present(dist.root)
                /\ NoLinkToAbsentCell) =>
          /\ dist'.root = dist.root
          /\ dist'.cells = LinkDistances(cells, dist.root)
          /\ cells' = cells]_vars

\* The cell lines of the file agree with its first line: height lines of
\* width characters, each '.' or 'x'.
WellFormed(t) ==
    /\ Len(t.lines) = t.height
    /\ \A y \in 1..Len(t.lines) :
         /\ Len(t.lines[y]) = t.width
         /\ \A x \in 1..Len(t.lines[y]) : t.lines[y][x] \in {".", "x"}

\* C19: Mask::from_txt produces a mask only for well-formed input: with a
\* character other than '.' or 'x', or with a number of rows or a row length
\* that disagrees with the declared width and height, parsing fails and no
\* mask is returned, so no grid is built from such a file.
FromTxtOnlyWellFormed ==
    pc \in {"from_mask", "grid"} => WellFormed(unwrap(txt))

\* C11: link(a, b, bidirectional) with a and b not exactly one cardinal step
\* apart (a = b included) fails: it does nothing or raises the
\* invalid-adjacency error, and in both cases no cell's linked flag has
\* changed.
NonAdjacentLinkChangesNothing ==
    [][(link_call' /= None /\ ~Adjacent(unwrap(link_call').a, unwrap(link_call').b)) =>
          cells' = cells]_vars

\* C21: Aldous-Broder on a masked grid whose N unmasked cells are
\* lattice-connected stops once all N - 1 non-start cells have been visited:
\* it does not keep walking after every unmasked cell is linked, so in its
\* loop with every unmasked cell linked the counter `unvisited` is 0.
AldousBroderStopsWhenAllLinked ==
    (/\ alg = "AldousBroder"
     /\ pc = "ab_loop"
     /\ MaskConnected
     /\ Cardinality(UnmaskedPoints) >= 2
     /\ \A c \in PresentCells(cells) : Len(Cell_links(c)) > 0) =>
        unvisited = 0

\* C22: Recursive Backtracker and Hunt-and-Kill terminate on every grid with
\* at least one unmasked cell for every sequence of random choices, with no
\* fairness assumption on the choices.
BacktrackerAndHuntTerminate ==
    (alg \in {"RecursiveBacktracker", "HuntAndKill"} /\ UnmaskedPoints /= {}) =>
        <>(pc = "done")

\* The cells of cs without links, as Hunt-and-Kill's `links().is_empty()`
\* sees them, and the first cell in row-major order that has no links and a
\* neighbouring cell with links.
Unlinked(cs) == {c.point : c \in {d \in PresentCells(cs) : Cell_links(d) = <<>>}}
HuntCandidates(cs) ==
    {p \in Unlinked(cs) :
        \E q \in PresentPoints(cs) \ Unlinked(cs) : Adjacent(p, q)}
FirstInRowMajor(points) ==
    CHOOSE p \in points : \A q \in points : p.y * width + p.x <= q.y * width + q.x
WalkStuck ==
    /\ alg = "HuntAndKill"
    /\ pc = "hk_loop"
    /\ current /= None
    /\ \A q \in PresentPoints(cells) :
         Adjacent(unwrap(current).point, q) => q \notin Unlinked(cells)

\* C23: in Hunt-and-Kill, whenever the walk is stuck (the current cell has no
\* unvisited neighbour) and some cell without links has a neighbour with
\* links, the hunt links exactly one cell, the first such cell in row-major
\* order, to one of its neighbours that had links, and the walk resumes from
\* it; no other cell is linked in that hunt.
HuntLinksFirstCandidate ==
    [][(WalkStuck /\ HuntCandidates(cells) /= {}) =>
          LET first == FirstInRowMajor(HuntCandidates(cells))
          IN  /\ current' /= None
              /\ unwrap(current').point = first
              /\ Unlinked(cells') = Unlinked(cells) \ {first}
              /\ Cardinality(Links(cells')) = Cardinality(Links(cells)) + 1
              /\ Links(cells) \subseteq Links(cells')
              /\ \E q \in PresentPoints(cells) \ Unlinked(cells) :
                    Links(cells') \ Links(cells) = {{first, q}}]_vars

\* A hunt has just linked a cell that lies before the cell the walk was
\* stuck at, on a masked grid.
HuntResumed ==
    /\ alg = "HuntAndKill"
    /\ pc = "hk_loop"
    /\ ~FullyOpen
    /\ current /= None
    /\ link_call /= None
    /\ unwrap(link_call).a = unwrap(current).point
    /\ Cardinality(Links(cells)) >= 3

\* C24: in Wilson's algorithm, at every step of a walk the recorded path has
\* no repeated cell and ends at the cell the walk stands on, every path cell
\* but the last is unvisited, no unvisited cell off the path being linked has
\* a link (only finished paths are linked), and while a path is linked
\* exactly its cells already linked from have left the unvisited set.
WilsonsPathLoopErased ==
    (alg = "Wilsons" /\ pc \in {"w_outer", "w_walk", "w_link", "done"}) =>
        LET unvisited_points == {w_unvisited[k].point : k \in 1..Len(w_unvisited)}
            on_path == {path[k].point : k \in 1..Len(path)}
        IN  /\ pc \in {"w_walk", "w_link"} =>
                /\ Len(path) >= 1
                /\ \A j \in 1..Len(path) : \A k \in 1..Len(path) :
                       path[j].point = path[k].point => j = k
            /\ pc = "w_walk" =>
                /\ cell = path[Len(path)]
                /\ \A k \in 1..(Len(path) - 1) : contains(w_unvisited, path[k])
            /\ pc = "w_link" =>
                /\ \A k \in 1..(Len(path) - 1) :
                       contains(w_unvisited, path[k]) <=> k > i
                /\ path[Len(path)].point \notin unvisited_points
                /\ \A k \in 1..i : {path[k].point, path[k + 1].point} \in Links(cells)
            /\ \A c \in PresentCells(cells) :
                   (c.point \in unvisited_points
                        /\ ~(pc = "w_link" /\ c.point \in on_path)) =>
                       Cell_links(c) = <<>>

\* A loop-erased path of four cells has been linked into the tree.
WilsonsPathLinked ==
    /\ alg = "Wilsons"
    /\ pc = "w_link"
    /\ Len(path) = 4
    /\ i = 3
    /\ Cardinality(Links(cells)) >= 4

\* The outcomes the coin leaves open for the cell the Sidewinder scan is at.
CanCloseRun(c) == \E coin \in BOOLEAN : should_close_out(c, width, coin)
CanExtendRun(c) == \E coin \in BOOLEAN : ~should_close_out(c, width, coin)

\* C25: in Sidewinder the run is forced to extend only in the northernmost
\* row: at every cell of a row y >= 1 that is not on the eastern boundary
\* both closing the run and extending it east are possible, at a cell of row
\* 0 off the eastern boundary the run is extended, and at the eastern
\* boundary the run is always closed. Stated for the fully-open grid.
SidewinderForcedOnlyInRowZero ==
    (alg = "Sidewinder" /\ FullyOpen /\ pc = "sw_scan"
                        /\ i < Cardinality(DOMAIN cells)) =>
        LET c == unwrap(cells[i])
        IN  IF c.point.x = width - 1
            THEN CanCloseRun(c) /\ ~CanExtendRun(c)
            ELSE IF c.point.y = 0
                 THEN CanExtendRun(c) /\ ~CanCloseRun(c)
                 ELSE CanCloseRun(c) /\ CanExtendRun(c)

\* Every two horizontally adjacent cells of row y are linked / every two
\* vertically adjacent cells of column x are linked.
RowCorridor(y) ==
    \A x \in 0..(width - 2) : {Point_new(x, y), Point_new(x + 1, y)} \in Links(cells)
ColumnCorridor(x) ==
    \A y \in 0..(height - 2) : {Point_new(x, y), Point_new(x, y + 1)} \in Links(cells)

\* C26 as stated: after Binary Tree on any fully-unmasked W x H grid the
\* unbroken corridors lie along the south and west boundaries: the
\* southernmost row (y = H - 1) and the westernmost column (x = 0) are
\* linked throughout, for every sequence of random choices.
BinaryTreeSouthWestCorridors ==
    (alg = "BinaryTree" /\ FullyOpen /\ pc = "done") =>
        RowCorridor(height - 1) /\ ColumnCorridor(0)

\* C26, amended: after Binary Tree on any fully-unmasked W x H grid the
\* unbroken corridors lie along the north and east boundaries: the
\* northernmost row (y = 0) and the easternmost column (x = W - 1) are linked
\* throughout, for every sequence of random choices.
BinaryTreeNorthEastCorridors ==
    (alg = "BinaryTree" /\ FullyOpen /\ pc = "done") =>
        RowCorridor(0) /\ ColumnCorridor(width - 1)

\* Binary Tree has finished a 3x3 grid whose south row and west column are
\* both broken.
BinaryTreeBrokenSouthWest ==
    /\ alg = "BinaryTree"
    /\ FullyOpen
    /\ pc = "done"
    /\ width = 3
    /\ height = 3
    /\ ~RowCorridor(height - 1)
    /\ ~ColumnCorridor(0)
    /\ RowCorridor(0)
    /\ ColumnCorridor(width - 1)

\* C27: link(a, b, bidirectional) changes the linked flags of no cell other
\* than the cells located at coordinates a and b, for every pair of points
\* and every grid size (width 1 and points with x >= width included): an
\* out-of-bounds endpoint resolves to no cell.
LinkTouchesOnlyEndpoints ==
    [][link_call' /= None =>
          \A j \in DOMAIN cells :
              cells'[j] /= cells[j] =>
                  unwrap(cells[j]).point \in {unwrap(link_call').a, unwrap(link_call').b}]_vars

\* The graph of edges is a forest: taking away the edges at vertices of
\* degree one, again and again, leaves no edge (a cycle has no such vertex).
RECURSIVE Forest(_)
Forest(edges) ==
    IF edges = {}
    THEN TRUE
    ELSE LET leaves == {p \in UNION edges :
                          Cardinality({e \in edges : p \in e}) = 1}
         IN  IF leaves = {}
             THEN FALSE
             ELSE Forest({e \in edges : e \cap leaves = {}})

\* C28: in every intermediate state of Aldous-Broder, Wilson's,
\* Hunt-and-Kill and Recursive Backtracker on any mask the linked graph has
\* no cycle, and the number of links never exceeds the number of linked
\* cells minus one.
WalkAlgorithmsAcyclic ==
    (alg \in {"AldousBroder", "Wilsons", "HuntAndKill", "RecursiveBacktracker"}) =>
        LET links == Links(cells)
        IN  /\ Forest(links)
            /\ links /= {} =>
                 Cardinality(links) <=
                     Cardinality({c \in PresentCells(cells) : Cell_links(c) /= <<>>}) - 1

\* Wilson's is linking a path that is not yet attached to the tree: the
\* links form two components.
WilsonsDetachedPath ==
    /\ alg = "Wilsons"
    /\ pc = "w_link"
    /\ i = 1
    /\ Len(path) >= 3
    /\ Cardinality({ReachFrom({p}, Links(cells)) : p \in UNION Links(cells)}) = 2

\* C29: shortest_path_to(goal) terminates for every goal with a recorded
\* distance on every grid state reached by any sequence of link calls
\* (calls with bidirectional = false included) followed by compute: it
\* reaches the root, never loops for ever and never fails on a neighbour
\* without a recorded distance. Stated for distances computed from an empty
\* map on grids on which every marked slot leads to a cell.
ShortestPathTerminates ==
    (/\ ret /= None
     /\ unwrap(ret).op = "shortest_path_to"
     /\ FreshlyComputed
     /\ NoLinkToAbsentCell) =>
        /\ unwrap(ret).outcome = "ok"
        /\ dist.root \in DOMAIN unwrap(ret).value.cells

====
